---------------------------- MODULE Spec2Model ----------------------------
(***************************************************************************)
(* ClusteringHandler.cluster_activations                                   *)
(* (art/poison_detection/clustering_handler.py).                           *)
(*                                                                         *)
(* One call of cluster_activations is modelled as a sequential process.    *)
(* A matrix is abstracted to its shape and its identity: the record        *)
(* [cls, fresh, rows, cols] is the array that belongs to class cls; fresh  *)
(* is FALSE for the caller's own array separated_activations[cls] and TRUE *)
(* for an array newly allocated by the projector.  Sequences are 1-based:  *)
(* position i of the model is class i-1 of the code.                       *)
(*                                                                         *)
(* The numeric library (sklearn FastICA, PCA, KMeans) is modelled at the   *)
(* level of its fit contract: which shapes it rejects, the shape it        *)
(* returns, and the range of the labels.  The numeric content is not       *)
(* modelled, so cluster labels are any values the contract allows, and a   *)
(* fit may fail for reasons that depend on the data (non-finite values).   *)
(***************************************************************************)
EXTENDS Integers, Sequences

\* Bounds of the explored inputs.
MaxClasses == 2
MaxRows == 2
MaxCols == 2
MaxNdims == 2
MaxClusters == 2
\* Wider shapes, for the cases where a class has fewer rows than ndims and
\* more columns than ndims (FastICA needs at least two rows).
WideCols == 4
WideNdims == 3

VARIABLES
    separated_activations,          \* argument: list of per-class matrices
    n_clusters,                     \* argument
    ndims,                          \* argument
    reduce,                         \* argument
    clustering_method,              \* argument
    pc,                             \* position in the function body
    idx,                            \* loop position (1-based), i+1 of the code
    projector,                      \* local: the projector instance
    clusterer,                      \* local: the clusterer instance
    separated_clusters,             \* local list
    separated_reduced_activations,  \* local list
    outcome,                        \* how the call ended, as the caller sees it
    result,                         \* the returned pair (<<>> when nothing is returned)
    error,                          \* the exception that left the call
    printed,                        \* messages written by print
    log                             \* library calls made so far, in order

vars == <<separated_activations, n_clusters, ndims, reduce, clustering_method,
          pc, idx, projector, clusterer, separated_clusters,
          separated_reduced_activations, outcome, result, error, printed, log>>

args == <<separated_activations, n_clusters, ndims, reduce, clustering_method>>

Min(a, b) == IF a <= b THEN a ELSE b

----------------------------------------------------------------------------
\* Values

NoMatrix == [cls |-> 0, fresh |-> FALSE, rows |-> 0, cols |-> 0]

NoInstance == [kind |-> "unset", param |-> 0]

NoError == [raiser |-> "none", op |-> "none", cls |-> 0]

\* The caller's array for class c.
InputMatrix(c, r, d) == [cls |-> c, fresh |-> FALSE, rows |-> r, cols |-> d]

\* Lists of at most MaxClasses matrices of at most MaxRows rows and maxcols
\* columns.
InputLists(maxcols) ==
    UNION { { [c \in 1..len |-> InputMatrix(c, s[c][1], s[c][2])] :
                s \in [1..len -> (0..MaxRows) \X (1..maxcols)] } :
            len \in 0..MaxClasses }

ReduceValues == {"FastICA", "PCA", "bogus"}

ClusteringValues == {"KMeans", "bogus"}

\* One library call: a constructor (cls = 0) or a fit on class cls with input X.
Event(op, c, X, r) == [op |-> op, cls |-> c, X |-> X, raised |-> r]

----------------------------------------------------------------------------
\* The numeric library, at the level of its fit contract.

\* PCA(n_components=c).fit_transform(X): set of outcomes.
PCAFitTransform(c, X) ==
    IF X.rows < 1 \/ X.cols < 1 \/ c < 0 \/ c > Min(X.rows, X.cols)
    THEN { [raised |-> TRUE, rows |-> 0, cols |-> 0] }
    ELSE { [raised |-> FALSE, rows |-> X.rows, cols |-> c],
           [raised |-> TRUE, rows |-> 0, cols |-> 0] }

\* FastICA(n_components=c).fit_transform(X): set of outcomes.  A component
\* count above min(rows, cols) is lowered to it with a warning.
FastICAFitTransform(c, X) ==
    IF X.rows < 2 \/ X.cols < 1 \/ c < 1
    THEN { [raised |-> TRUE, rows |-> 0, cols |-> 0] }
    ELSE { [raised |-> FALSE, rows |-> X.rows,
            cols |-> Min(c, Min(X.rows, X.cols))],
           [raised |-> TRUE, rows |-> 0, cols |-> 0] }

\* projector.fit_transform(X)
FitTransform(p, X) ==
    IF p.kind = "FastICA" THEN FastICAFitTransform(p.param, X)
                          ELSE PCAFitTransform(p.param, X)

\* KMeans(n_clusters=k).fit_predict(X): set of outcomes; labels is one label
\* per row of X.
KMeansFitPredict(k, X) ==
    IF X.rows < 1 \/ X.cols < 1 \/ k < 1 \/ X.rows < k
    THEN { [raised |-> TRUE, labels |-> <<>>] }
    ELSE { [raised |-> FALSE, labels |-> l] : l \in [1..X.rows -> 0..(k - 1)] }
         \cup { [raised |-> TRUE, labels |-> <<>>] }

----------------------------------------------------------------------------
\* cluster_activations

\* line 39-42: reduce selects the projector
ReduceSupported(r) == r \in {"FastICA", "PCA"}

NewProjector(r, nd) == [kind |-> r, param |-> nd]

\* line 47-48: clustering_method selects the clusterer
ClusteringSupported(m) == m = "KMeans"

\* Mutant of NewClusterer: the clusterer is configured with ndims.
NewClustererNdims(m, k) == [kind |-> m, param |-> ndims]

NewClusterer(m, k) == [kind |-> m, param |-> k]

\* Mutant of NeedsReduction: the comparison includes equality.
NeedsReductionGeq(ac, nd) == ac.cols >= nd

\* line 56: whether dimensionality reduction is applied to ac
NeedsReduction(ac, nd) == ac.cols > nd

\* Mutant of ClusterInput: the clusterer gets the unreduced activations.
ClusterInputUnreduced(ac, reduced_activations) == ac

\* line 65: the matrix handed to the clusterer
ClusterInput(ac, reduced_activations) == reduced_activations

\* The state at the call, for the given sets of inputs.
InitWith(lists, ndimsValues) ==
    /\ separated_activations \in lists
    /\ n_clusters \in (-1)..MaxClusters
    /\ ndims \in ndimsValues
    /\ reduce \in ReduceValues
    /\ clustering_method \in ClusteringValues
    /\ pc = "start"
    /\ idx = 0
    /\ projector = NoInstance
    /\ clusterer = NoInstance
    /\ separated_clusters = <<>>
    /\ separated_reduced_activations = <<>>
    /\ outcome = "running"
    /\ result = <<>>
    /\ error = NoError
    /\ printed = <<>>
    /\ log = <<>>

Init == InitWith(InputLists(MaxCols), (-1)..MaxNdims)

InitWide == InitWith(InputLists(WideCols), (-1)..WideNdims)

\* lines 53 and 71: the loop goes on with class n, or, the list exhausted,
\* the two lists are returned.
LoopNext(n, clusters, reduced) ==
    IF n <= Len(separated_activations)
    THEN /\ idx' = n
         /\ pc' = "loop"
         /\ UNCHANGED <<result, outcome>>
    ELSE /\ result' = <<clusters, reduced>>
         /\ outcome' = "returned"
         /\ pc' = "exit"
         /\ UNCHANGED idx

\* Mutant of Configure: the unsupported clustering_method branch prints and
\* does not return.
ConfigureNoReturn ==
    /\ pc = "start"
    /\ separated_clusters' = <<>>
    /\ separated_reduced_activations' = <<>>
    /\ IF ~ReduceSupported(reduce)
       THEN /\ printed' = Append(printed, "reduce not supported")
            /\ outcome' = "returned_none"
            /\ pc' = "exit"
            /\ UNCHANGED <<projector, clusterer, log, idx, result>>
       ELSE /\ projector' = NewProjector(reduce, ndims)
            /\ IF ~ClusteringSupported(clustering_method)
               THEN /\ printed' = Append(printed, "clustering not supported")
                    /\ log' = Append(log, Event(reduce, 0, NoMatrix, FALSE))
                    /\ UNCHANGED clusterer
               ELSE /\ clusterer' = NewClusterer(clustering_method, n_clusters)
                    /\ log' = log \o <<Event(reduce, 0, NoMatrix, FALSE),
                                       Event(clustering_method, 0, NoMatrix, FALSE)>>
                    /\ UNCHANGED printed
            /\ LoopNext(1, <<>>, <<>>)
    /\ UNCHANGED <<args, error>>

\* lines 36-53 (and 71 for an empty list): the two result lists, the projector
\* and the clusterer; an unsupported value prints and returns nothing.
Configure ==
    /\ pc = "start"
    /\ separated_clusters' = <<>>
    /\ separated_reduced_activations' = <<>>
    /\ IF ~ReduceSupported(reduce)
       THEN /\ printed' = Append(printed, "reduce not supported")
            /\ outcome' = "returned_none"
            /\ pc' = "exit"
            /\ UNCHANGED <<projector, clusterer, log, idx, result>>
       ELSE /\ projector' = NewProjector(reduce, ndims)
            /\ IF ~ClusteringSupported(clustering_method)
               THEN /\ printed' = Append(printed, "clustering not supported")
                    /\ outcome' = "returned_none"
                    /\ pc' = "exit"
                    /\ log' = Append(log, Event(reduce, 0, NoMatrix, FALSE))
                    /\ UNCHANGED <<clusterer, idx, result>>
               ELSE /\ clusterer' = NewClusterer(clustering_method, n_clusters)
                    /\ log' = log \o <<Event(reduce, 0, NoMatrix, FALSE),
                                       Event(clustering_method, 0, NoMatrix, FALSE)>>
                    /\ LoopNext(1, <<>>, <<>>)
                    /\ UNCHANGED printed
    /\ UNCHANGED <<args, error>>

\* line 57: the projector is fit on ac and transforms it; an exception of the
\* library leaves the call.
ReduceApply(ac) ==
    \E o \in FitTransform(projector, ac) :
      /\ log' = Append(log, Event("fit_transform", idx, ac, o.raised))
      /\ IF o.raised
         THEN /\ outcome' = "raised"
              /\ error' = [raiser |-> "library", op |-> "fit_transform",
                           cls |-> idx]
              /\ pc' = "exit"
              /\ UNCHANGED separated_reduced_activations
         ELSE /\ separated_reduced_activations' =
                    Append(separated_reduced_activations,
                           [cls |-> idx, fresh |-> TRUE,
                            rows |-> o.rows, cols |-> o.cols])
              /\ pc' = "cluster"
              /\ UNCHANGED <<outcome, error>>
      /\ UNCHANGED <<idx, printed, result>>

\* Mutant of ReduceSkip: a class that needs no reduction is left out.
ReduceSkipContinue(ac) ==
    /\ printed' = Append(printed, "not applying dimensionality reduction")
    /\ LoopNext(idx + 1, separated_clusters, separated_reduced_activations)
    /\ UNCHANGED <<separated_reduced_activations, log, error>>

\* lines 59-62: no reduction; the list gets ac itself.
ReduceSkip(ac) ==
    /\ printed' = Append(printed, "not applying dimensionality reduction")
    /\ separated_reduced_activations' = Append(separated_reduced_activations, ac)
    /\ pc' = "cluster"
    /\ UNCHANGED <<idx, log, outcome, error, result>>

\* lines 53-62: the next class, its dimensionality reduction.
Reduce ==
    /\ pc = "loop"
    /\ idx <= Len(separated_activations)
    /\ LET ac == separated_activations[idx] IN
       IF NeedsReduction(ac, ndims) THEN ReduceApply(ac) ELSE ReduceSkip(ac)
    /\ UNCHANGED <<args, projector, clusterer, separated_clusters>>

\* Mutant of Cluster: an exception of the clusterer is caught and the loop
\* goes on with the next class.
ClusterSwallow ==
    /\ pc = "cluster"
    /\ LET ac == separated_activations[idx]
           reduced_activations == separated_reduced_activations[idx]
           X == ClusterInput(ac, reduced_activations)
       IN \E o \in KMeansFitPredict(clusterer.param, X) :
            /\ log' = Append(log, Event("fit_predict", idx, X, o.raised))
            /\ separated_clusters' = Append(separated_clusters, o.labels)
            /\ LoopNext(idx + 1, separated_clusters',
                        separated_reduced_activations)
            /\ UNCHANGED error
    /\ UNCHANGED <<args, projector, clusterer, separated_reduced_activations,
                   printed>>

\* lines 64-71: the cluster assignments of the class; an exception of the
\* library leaves the call; after the last class the two lists are returned.
Cluster ==
    /\ pc = "cluster"
    /\ LET ac == separated_activations[idx]
           reduced_activations == separated_reduced_activations[idx]
           X == ClusterInput(ac, reduced_activations)
       IN \E o \in KMeansFitPredict(clusterer.param, X) :
            /\ log' = Append(log, Event("fit_predict", idx, X, o.raised))
            /\ IF o.raised
               THEN /\ outcome' = "raised"
                    /\ error' = [raiser |-> "library", op |-> "fit_predict",
                                 cls |-> idx]
                    /\ pc' = "exit"
                    /\ UNCHANGED <<separated_clusters, idx, result>>
               ELSE /\ separated_clusters' = Append(separated_clusters, o.labels)
                    /\ LoopNext(idx + 1, separated_clusters',
                                separated_reduced_activations)
                    /\ UNCHANGED error
    /\ UNCHANGED <<args, projector, clusterer, separated_reduced_activations,
                   printed>>

Next == Configure \/ Reduce \/ Cluster

Spec == Init /\ [][Next]_vars

SpecWide == InitWide /\ [][Next]_vars

----------------------------------------------------------------------------
\* CLAIMS

Unsupported == ~ReduceSupported(reduce) \/ ~ClusteringSupported(clustering_method)

\* log[j] is a call of op made for class c.
IsCall(j, op, c) == log[j].op = op /\ log[j].cls = c

\* log[j] is a fit_transform or a fit_predict call.
IsFit(j) == log[j].op \in {"fit_transform", "fit_predict"}

Classes == 1..Len(separated_activations)

\* C1: a call that returns a result returns two lists as long as
\* separated_activations; position i of both belongs to class i, and the label
\* array and the reduced matrix at position i have as many rows as
\* separated_activations[i].
C1_ShapeInvariant ==
    outcome = "returned" =>
        /\ Len(result) = 2
        /\ Len(result[1]) = Len(separated_activations)
        /\ Len(result[2]) = Len(separated_activations)
        /\ \A i \in Classes :
             /\ result[2][i].cls = i
             /\ result[2][i].rows = separated_activations[i].rows
             /\ Len(result[1][i]) = separated_activations[i].rows
             /\ \E j \in 1..Len(log) :
                    /\ IsCall(j, "fit_predict", i)
                    /\ ~log[j].raised
                    /\ log[j].X.cls = i
                    /\ Len(result[1][i]) = log[j].X.rows

C1_Witness ==
    /\ outcome = "returned"
    /\ Len(separated_activations) = 2
    /\ separated_activations[1].rows # separated_activations[2].rows
    /\ result[2][1].fresh
    /\ ~result[2][2].fresh

\* C2: with an unsupported reduce or clustering_method the call never enters
\* the per-class loop: no fit_transform and no fit_predict call is ever made.
C2_FailFast ==
    Unsupported =>
        /\ pc \in {"start", "exit"}
        /\ idx = 0
        /\ \A j \in 1..Len(log) : ~IsFit(j)
        /\ separated_clusters = <<>>
        /\ separated_reduced_activations = <<>>

C2_Witness ==
    /\ pc = "exit"
    /\ ReduceSupported(reduce)
    /\ ~ClusteringSupported(clustering_method)
    /\ Len(separated_activations) = 2
    /\ NeedsReduction(separated_activations[1], ndims)
    /\ n_clusters = 2

\* C3: an unsupported reduce or clustering_method ends the call in an explicit
\* configuration error, never in a normal return of nothing.
C3_ExplicitConfigError ==
    (Unsupported /\ pc = "exit") =>
        /\ outcome = "raised"
        /\ error.raiser = "pipeline"
        /\ error.op = "configuration"

\* C4: a class with at most ndims columns is not given to the projector, its
\* reduced matrix is the input matrix itself, and the clusterer is run on it.
C4_PassThrough ==
    \A i \in 1..Len(separated_reduced_activations) :
        separated_activations[i].cols <= ndims =>
            /\ separated_reduced_activations[i] = separated_activations[i]
            /\ \A j \in 1..Len(log) : ~IsCall(j, "fit_transform", i)
            /\ (pc = "cluster" /\ idx = i)
                  \/ \E j \in 1..Len(log) :
                         /\ IsCall(j, "fit_predict", i)
                         /\ log[j].X = separated_activations[i]
            /\ outcome = "returned" => result[2][i] = separated_activations[i]

C4_Witness ==
    /\ outcome = "returned"
    /\ Len(separated_activations) = 2
    /\ separated_activations[1].cols = ndims
    /\ separated_activations[2].cols < ndims
    /\ result[2] = separated_activations

\* C5: in a call that returns a result, the reduced matrix of class i has
\* exactly min(ndims, d_i) columns.
C5_ReducedColumns ==
    outcome = "returned" =>
        \A i \in Classes :
            result[2][i].cols = Min(ndims, separated_activations[i].cols)

\* C6: in a call that returns a result, every label of every class is an
\* integer in [0, n_clusters).
C6_LabelRange ==
    /\ \A i \in 1..Len(separated_clusters) :
         \A r \in 1..Len(separated_clusters[i]) :
             separated_clusters[i][r] \in 0..(n_clusters - 1)
    /\ outcome = "returned" =>
         \A i \in Classes :
             \A r \in 1..Len(result[1][i]) :
                 result[1][i][r] \in 0..(n_clusters - 1)

C6_Witness ==
    /\ outcome = "returned"
    /\ n_clusters = 2
    /\ Len(separated_activations) = 2
    /\ result[1][1] = <<0, 1>>
    /\ result[1][2] = <<1, 1>>

InsufficientRows(i) ==
    \/ separated_activations[i].rows = 0
    \/ separated_activations[i].rows < n_clusters

\* C7: a class with zero rows, or with fewer rows than n_clusters, is never
\* handed to the projector or the clusterer; the call fails with an
\* insufficient-data error raised by the pipeline itself.
C7_InsufficientData ==
    (~Unsupported /\ n_clusters >= 1 /\ ndims >= 1) =>
        /\ \A j \in 1..Len(log) : IsFit(j) => ~InsufficientRows(log[j].cls)
        /\ \A i \in Classes :
             (InsufficientRows(i) /\ pc = "exit" /\ outcome # "returned"
                 /\ error.cls = i) =>
                    /\ outcome = "raised"
                    /\ error.raiser = "pipeline"
                    /\ error.op = "insufficient data"

\* C8: a non-positive n_clusters or ndims is rejected before any computation:
\* no fit_transform and no fit_predict call is made on any class.
C8_NonPositiveRejected ==
    (~Unsupported /\ (n_clusters <= 0 \/ ndims <= 0)) =>
        /\ \A j \in 1..Len(log) : ~IsFit(j)
        /\ pc = "exit" =>
              /\ outcome = "raised"
              /\ error.raiser = "pipeline"
              /\ error.op = "configuration"

\* C9: when the projector or the clusterer raises for a class, the call ends
\* there with that error: the raising call is the last library call, nothing
\* is returned, and no later class is processed.
C9_AbortOnFailure ==
    \A j \in 1..Len(log) :
        log[j].raised =>
            /\ j = Len(log)
            /\ pc = "exit"
            /\ outcome = "raised"
            /\ result = <<>>
            /\ error = [raiser |-> "library", op |-> log[j].op, cls |-> log[j].cls]
            /\ \A k \in 1..Len(log) : log[k].cls <= log[j].cls

C9_Witness ==
    /\ outcome = "raised"
    /\ error.cls = 2
    /\ Len(separated_clusters) = 1
    /\ Len(separated_clusters[1]) = 2
    /\ Len(separated_reduced_activations) = 2

\* C10: with supported methods the projector and the clusterer are created
\* once each, before any class is processed; classes are processed in input
\* order; for class i the projector is fit at most once (once when d_i > ndims)
\* on class i's own matrix, before the clusterer; the clusterer is fit once per
\* class, on the reduced matrix of that class.
C10_CallOrder ==
    (~Unsupported /\ pc # "start") =>
        /\ Len(log) >= 2
        /\ log[1] = Event(reduce, 0, NoMatrix, FALSE)
        /\ log[2] = Event(clustering_method, 0, NoMatrix, FALSE)
        /\ projector = [kind |-> reduce, param |-> ndims]
        /\ clusterer = [kind |-> clustering_method, param |-> n_clusters]
        /\ \A j \in 3..Len(log) :
             /\ IsFit(j)
             /\ log[j].cls \in Classes
             /\ log[j].op = "fit_transform" =>
                    log[j].X = separated_activations[log[j].cls]
             /\ log[j].op = "fit_predict" =>
                    /\ log[j].X = separated_reduced_activations[log[j].cls]
                    /\ log[j].X.cls = log[j].cls
                    /\ (~log[j].raised) =>
                          Len(separated_clusters[log[j].cls]) = log[j].X.rows
             /\ \A k \in (j + 1)..Len(log) :
                    /\ log[j].cls <= log[k].cls
                    /\ log[j].cls = log[k].cls =>
                          (log[j].op = "fit_transform" /\ log[k].op = "fit_predict")
        /\ \A c \in 1..Len(separated_reduced_activations) :
             (\E j \in 3..Len(log) : IsCall(j, "fit_transform", c))
                 <=> separated_activations[c].cols > ndims
        /\ \A c \in 1..Len(separated_clusters) :
             \E j \in 3..Len(log) : IsCall(j, "fit_predict", c)

C10_Witness ==
    /\ outcome = "returned"
    /\ Len(separated_activations) = 2
    /\ Len(log) = 6
    /\ IsCall(3, "fit_transform", 1)
    /\ IsCall(4, "fit_predict", 1)
    /\ IsCall(5, "fit_transform", 2)
    /\ IsCall(6, "fit_predict", 2)

=============================================================================
